---- MODULE Spec2Model ----
(***************************************************************************)
(* Model of the xray-vision view layers:                                   *)
(*   - CrossSection (bubblegum/backend/mpl/cross_section_2d.py)            *)
(*   - OneDimStackViewer / OneDimStackCanvas (qt_apps/plot1D.py)           *)
(*   - RecursiveTreeWidget (vistools/qt_widgets/displaydict.py)            *)
(* Each object is one record-valued variable whose fields are the          *)
(* attributes of the Python object; `call` records the last call made on   *)
(* it (operation, arguments, exception raised, redraw work done).          *)
(***************************************************************************)
EXTENDS Integers, Sequences, FiniteSets, TLC

VARIABLES xs, view, tree, call

vars == <<xs, view, tree, call>>

\* Python's None, and Optional values as sequences of length 0 or 1.
None == <<>>
Some(v) == <<v>>

-----------------------------------------------------------------------------
(* Bounds of the model *)

\* images of each shape offered as inputs
NumImages == 1
\* interpolation names offered as inputs (a prefix of _INTERPOLATION)
MaxInterp == 2
\* callback ids the canvas registry hands out before the model stops connecting
MaxCid == 6
\* data sets (and line artists) a OneDimStackViewer is constructed with
MaxLines == 2
\* data sets added to a viewer after its construction
MaxAdd == 1
\* elements of the lists shown in the tree widget
MaxLen == 2

-----------------------------------------------------------------------------
(* Helpers on sequences of integers *)

RECURSIVE SeqMin(_)
SeqMin(s) == IF Len(s) = 1 THEN s[1]
             ELSE LET m == SeqMin(Tail(s)) IN IF s[1] < m THEN s[1] ELSE m

RECURSIVE SeqMax(_)
SeqMax(s) == IF Len(s) = 1 THEN s[1]
             ELSE LET m == SeqMax(Tail(s)) IN IF s[1] > m THEN s[1] ELSE m

\* np.zeros(n) and np.arange(n)
Zeros(n) == [i \in 1..n |-> 0]
Arange(n) == [i \in 1..n |-> i - 1]

-----------------------------------------------------------------------------
(* CrossSection: images, events *)

\* shapes (numrows, numcols) of the images offered as inputs
Shapes == {<<2, 2>>, <<1, 2>>}

\* a 2D ndarray as a sequence of rows; images of one shape share no pixel value
MkImage(shape, seed) ==
    [r \in 1..shape[1] |-> [c \in 1..shape[2] |->
        10 * seed + shape[2] * (r - 1) + (c - 1)]]

Images == {MkImage(sh, k) : sh \in Shapes, k \in 1..NumImages}

\* ndarray.shape
Shape(im) == <<Len(im), Len(im[1])>>
\* im[row, :] and im[:, col] with 0-based indices
RowOf(im, row) == im[row + 1]
ColOf(im, col) == [r \in 1..Len(im) |-> im[r][col + 1]]

\* np.min(im), np.max(im)
ImMin(im) == SeqMin([r \in 1..Len(im) |-> SeqMin(im[r])])
ImMax(im) == SeqMax([r \in 1..Len(im) |-> SeqMax(im[r])])

\* the list of valid interpolation options; the first one is the default
INTERPOLATION == <<"none", "nearest", "bilinear", "bicubic", "spline16",
                   "spline36", "hanning", "hamming", "hermite", "kaiser",
                   "quadric", "catrom", "gaussian", "bessel", "mitchell",
                   "sinc", "lanczos">>

InterpInputs == {INTERPOLATION[i] : i \in 1..MaxInterp}

\* interpolation argument of the constructor: omitted, or a non-default name
CtorInterpolation == {None, Some(INTERPOLATION[2])}

\* force_redraw keyword of the decorated methods: None, True or False
ForceRedraw == {"None", "True", "False"}

\* Mouse coordinates are floats; they are modelled by twice their value,
\* so that x + 0.5 is (x2 + 1) / 2.
Coords2 == {<<-2, -2>>, <<1, -2>>, <<-2, 1>>, <<1, 1>>, <<-3, 1>>}

\* int(x + 0.5): Python's int() truncates toward zero
IntPlusHalf(x2) == IF x2 + 1 >= 0 THEN (x2 + 1) \div 2 ELSE -((-(x2 + 1)) \div 2)

\* mouse events: outside the image axes, inside without data coordinates,
\* inside with data coordinates
Events == {[inaxes |-> FALSE, xdata |-> None, ydata |-> None],
           [inaxes |-> TRUE, xdata |-> None, ydata |-> None]}
          \cup {[inaxes |-> TRUE, xdata |-> Some(p[1]), ydata |-> Some(p[2])] :
                    p \in Coords2}

-----------------------------------------------------------------------------
(* CrossSection: the object and the canvas it draws on *)

\* Attributes before __init__ has run (placeholders, never read).
NoXS ==
    [pc |-> "new", canvas |-> FALSE, auto_redraw |-> FALSE,
     interpolation |-> "", active |-> FALSE, dirty |-> FALSE,
     cb_dirty |-> FALSE, imdata |-> None,
     im |-> [data |-> None, clim |-> <<0, 1>>, interpolation |-> "",
             extent |-> None],
     ax_v_xlim |-> None, ax_h_ylim |-> None,
     cur |-> "None",
     ln_v |-> [xdata |-> <<>>, ydata |-> <<>>, visible |-> FALSE],
     ln_h |-> [xdata |-> <<>>, ydata |-> <<>>, visible |-> FALSE],
     ax_bk |-> FALSE, row |-> None, col |-> None,
     move_cid |-> None, click_cid |-> None, clear_cid |-> None,
     callbacks |-> {}, cid_count |-> 0]

\* The running call: the object, the exception raised so far (a raised
\* exception ends the call), whether update_artists ran, canvas draws made.
Frame(o) == [self |-> o, exc |-> "None", updated |-> FALSE, draws |-> 0]
Raise(f, e) == [f EXCEPT !.exc = e]
Raised(f) == f.exc # "None"

\* fullrange_limit_factory()._full_range, the default limit function
FullRange(im) == <<ImMin(im), ImMax(im)>>

\* CrossSection.clear, the draw_event callback
clear(f) ==
    [f EXCEPT !.self.ax_bk = TRUE,
              !.self.ln_h.visible = FALSE,
              !.self.ln_v.visible = FALSE]

\* self._fig.canvas.draw(): renders, then fires draw_event
CanvasDraw(f) ==
    IF Raised(f) THEN f
    ELSE IF ~f.self.canvas THEN Raise(f, "AttributeError")
    ELSE LET g == [f EXCEPT !.draws = @ + 1]
         IN IF \E cb \in g.self.callbacks : cb[2] = "clear" THEN clear(g) ELSE g

\* CrossSection.update_artists
update_artists(f) ==
    IF Raised(f) THEN f
    ELSE LET s == f.self
             g == [f EXCEPT !.updated = TRUE]
         IN IF ~(s.dirty \/ s.cb_dirty) THEN g
            ELSE IF s.imdata = None THEN Raise(g, "TypeError")
            ELSE LET vlim == FullRange(s.imdata)
                 IN [g EXCEPT !.self.im.clim = vlim,
                              !.self.ax_v_xlim = <<vlim[2], vlim[1]>>,
                              !.self.ax_h_ylim = vlim,
                              !.self.im.data = s.imdata,
                              !.self.dirty = FALSE,
                              !.self.cb_dirty = FALSE]

\* the tail of the auto_redraw decorator: o is the object before the call,
\* f the frame the wrapped function returned
auto_redraw(o, fr, f) ==
    LET force_redraw == IF fr = "None" THEN o.auto_redraw ELSE fr = "True"
    IN IF Raised(f) THEN f
       ELSE IF force_redraw THEN CanvasDraw(update_artists(f))
       ELSE f

\* canvas.mpl_connect: the registry returns the existing id of a callback
\* that is already connected, else a fresh id
CidOf(s, name) == CHOOSE cb \in s.callbacks : cb[2] = name
mpl_connect(s, name) ==
    IF \E cb \in s.callbacks : cb[2] = name THEN s
    ELSE [s EXCEPT !.cid_count = @ + 1,
                   !.callbacks = @ \cup {<<s.cid_count + 1, name>>}]
ConnectedCid(s, name) == CidOf(mpl_connect(s, name), name)[1]

\* canvas.mpl_disconnect
mpl_disconnect(s, cid) ==
    [s EXCEPT !.callbacks = {cb \in @ : cb[1] # cid}]

\* CrossSection.init_artists (undecorated body)
init_artists_body(f, init_image) ==
    LET im_shape == Shape(init_image)
    IN [f EXCEPT
          !.self.imdata = init_image,
          !.self.im.extent = <<-1, 2 * im_shape[2] + 1, 2 * im_shape[1] + 1, -1>>,
          !.self.ln_v.xdata = Zeros(im_shape[1]),
          !.self.ln_v.ydata = Arange(im_shape[1]),
          !.self.ln_h.xdata = Arange(im_shape[2]),
          !.self.ln_h.ydata = Zeros(im_shape[2]),
          !.self.dirty = TRUE]

init_artists(f, init_image, fr) ==
    auto_redraw(f.self, fr, init_artists_body(f, init_image))

\* CrossSection.connect_callbacks (undecorated body)
connect_callbacks_body(f) ==
    IF ~f.self.canvas THEN Raise(f, "AttributeError")
    ELSE LET s0 == [f.self EXCEPT !.cur = "active"]
             s1 == [mpl_connect(s0, "move_cb") EXCEPT
                       !.move_cid = Some(ConnectedCid(s0, "move_cb"))]
             s2 == [mpl_connect(s1, "click_cb") EXCEPT
                       !.click_cid = Some(ConnectedCid(s1, "click_cb"))]
             s3 == [mpl_connect(s2, "clear") EXCEPT
                       !.clear_cid = Some(ConnectedCid(s2, "clear"))]
         IN CanvasDraw([f EXCEPT !.self = s3])

connect_callbacks(f, fr) ==
    auto_redraw(f.self, fr, connect_callbacks_body(f))

\* one turn of the loop of disconnect_callbacks over the three attributes
DisconnectAttr(s, atr) ==
    IF s[atr] # None
    THEN [mpl_disconnect(s, s[atr][1]) EXCEPT ![atr] = None]
    ELSE s

\* disconnect_callbacks whose loop leaves out '_click_cid'
disconnect_callbacks_skip_click(f) ==
    LET s == f.self
    IN IF ~s.canvas
       THEN [f EXCEPT !.self.move_cid = None,
                      !.self.clear_cid = None,
                      !.self.click_cid = None]
       ELSE LET s2 == DisconnectAttr(DisconnectAttr(s, "move_cid"), "clear_cid")
            IN [f EXCEPT !.self = [s2 EXCEPT !.cur = "None"]]

\* CrossSection.disconnect_callbacks
disconnect_callbacks(f) ==
    LET s == f.self
    IN IF ~s.canvas
       THEN [f EXCEPT !.self.move_cid = None,
                      !.self.clear_cid = None,
                      !.self.click_cid = None]
       ELSE LET s3 == DisconnectAttr(DisconnectAttr(DisconnectAttr(
                          s, "move_cid"), "clear_cid"), "click_cid")
            IN [f EXCEPT !.self = [s3 EXCEPT !.cur = "None"]]

\* CrossSection.move_cb, the motion_notify_event callback
move_cb(f, event) ==
    LET s == f.self
    IN IF ~s.active THEN f
       ELSE IF ~event.inaxes THEN f
       ELSE IF s.imdata = None THEN Raise(f, "AttributeError")
       ELSE IF event.xdata = None \/ event.ydata = None THEN f
       ELSE
         LET numrows == Shape(s.imdata)[1]
             numcols == Shape(s.imdata)[2]
             col == IntPlusHalf(event.xdata[1])
             row == IntPlusHalf(event.ydata[1])
             g == [f EXCEPT !.self.ln_h.visible = TRUE,
                            !.self.ln_v.visible = TRUE]
         IN IF Some(row) # s.row \/ Some(col) # s.col
            THEN IF 0 <= col /\ col < numcols /\ 0 <= row /\ row < numrows
                 THEN LET h == [g EXCEPT !.self.col = Some(col),
                                         !.self.row = Some(row)]
                      IN IF ~s.ax_bk THEN Raise(h, "TypeError")
                         ELSE [h EXCEPT
                                 !.self.ln_h.ydata = RowOf(s.imdata, row),
                                 !.self.ln_v.xdata = ColOf(s.imdata, col)]
                 ELSE g
            ELSE g

\* the setter of the `active` property
set_active(f, val) ==
    LET g == [f EXCEPT !.self.active = val]
    IN IF f.self.cur = "None" THEN Raise(g, "AttributeError")
       ELSE [g EXCEPT !.self.cur = IF val THEN "active" ELSE "inactive"]

\* CrossSection.click_cb, the button_press_event callback
click_cb(f, event) ==
    IF ~event.inaxes THEN f
    ELSE LET g == set_active(f, ~f.self.active)
         IN IF Raised(g) THEN g
            ELSE IF g.self.active THEN move_cb(g, event)
            ELSE g

\* CrossSection.update_interpolation
update_interpolation(f, interpolation, fr) ==
    auto_redraw(f.self, fr,
                [f EXCEPT !.self.dirty = TRUE,
                          !.self.im.interpolation = interpolation])

\* the `interpolation` property
interpolation_property(s) == s.interpolation

\* update_image storing the image before it checks the shape
update_image_body_store_first(f, new_image) ==
    IF f.self.imdata = None THEN Raise(f, "AttributeError")
    ELSE IF Shape(f.self.imdata) # Shape(new_image)
         THEN Raise([f EXCEPT !.self.imdata = new_image, !.self.dirty = TRUE],
                    "ValueError")
    ELSE [f EXCEPT !.self.imdata = new_image, !.self.dirty = TRUE]

\* CrossSection.update_image (undecorated body)
update_image_body(f, new_image) ==
    IF f.self.imdata = None THEN Raise(f, "AttributeError")
    ELSE IF Shape(f.self.imdata) # Shape(new_image) THEN Raise(f, "ValueError")
    ELSE [f EXCEPT !.self.imdata = new_image, !.self.dirty = TRUE]

update_image(f, new_image, fr) ==
    auto_redraw(f.self, fr, update_image_body(f, new_image))

\* the methods the class CrossSection defines
CrossSectionMethods ==
    {"move_cb", "click_cb", "connect_callbacks", "disconnect_callbacks",
     "init_artists", "clear", "update_interpolation", "update_cmap",
     "update_image", "update_norm", "set_limit_func", "update_artists",
     "_draw"}

\* CrossSection.__init__
CrossSectionInit(canvas, init_image, auto, interpolation) ==
    LET s == [NoXS EXCEPT
                !.pc = "ready",
                !.interpolation = IF interpolation = None THEN INTERPOLATION[1]
                                  ELSE interpolation[1],
                !.auto_redraw = auto,
                !.active = TRUE, !.dirty = TRUE, !.cb_dirty = TRUE,
                !.canvas = canvas,
                !.im.interpolation = IF interpolation = None THEN INTERPOLATION[1]
                                     ELSE interpolation[1]]
        f == Frame(s)
    IN IF canvas /\ init_image # None
       THEN IF "init_artist_data" \in CrossSectionMethods
            THEN connect_callbacks(init_artists(f, init_image, "None"), "None")
            ELSE Raise(f, "AttributeError")
       ELSE f

-----------------------------------------------------------------------------
(* CrossSection: the actions *)

\* the result of a call: the object is replaced, the call is recorded
Returns(op, arg, f) ==
    /\ xs' = f.self
    /\ call' = [op |-> op, arg |-> arg, exc |-> f.exc,
                updated |-> f.updated, draws |-> f.draws]
    /\ UNCHANGED <<view, tree>>

\* CrossSection(fig, init_image, auto_redraw=..., interpolation=...): a
\* constructor that raises leaves no object behind
Construct(interpolations) ==
    /\ xs.pc = "new"
    /\ \E canvas \in BOOLEAN, init_image \in {None} \cup {Some(i) : i \in Images},
          auto \in BOOLEAN, interpolation \in interpolations :
         LET f == CrossSectionInit(canvas,
                     IF init_image = None THEN None ELSE init_image[1],
                     auto, interpolation)
             arg == [canvas |-> canvas, init_image |-> init_image,
                     interpolation |-> interpolation]
         IN IF Raised(f)
            THEN Returns("__init__", arg, [f EXCEPT !.self = [NoXS EXCEPT !.pc = "failed"]])
            ELSE Returns("__init__", arg, f)

InitArtists(images) ==
    /\ xs.pc = "ready"
    /\ \E init_image \in images, fr \in ForceRedraw :
         Returns("init_artists", None, init_artists(Frame(xs), init_image, fr))

ConnectCallbacks ==
    /\ xs.pc = "ready"
    /\ xs.cid_count + 3 <= MaxCid
    /\ \E fr \in ForceRedraw :
         Returns("connect_callbacks", None, connect_callbacks(Frame(xs), fr))

DisconnectCallbacks ==
    /\ xs.pc = "ready"
    /\ Returns("disconnect_callbacks", None, disconnect_callbacks(Frame(xs)))

UpdateImageOf(images) ==
    /\ xs.pc = "ready"
    /\ \E new_image \in images, fr \in ForceRedraw :
         Returns("update_image", new_image, update_image(Frame(xs), new_image, fr))

UpdateInterpolation ==
    /\ xs.pc = "ready"
    /\ \E m \in InterpInputs, fr \in ForceRedraw :
         Returns("update_interpolation", m, update_interpolation(Frame(xs), m, fr))

\* CrossSection2DView.replot
UpdateArtists ==
    /\ xs.pc = "ready"
    /\ Returns("update_artists", None, update_artists(Frame(xs)))

\* the canvas delivers a motion_notify_event to the connected move_cb
MotionNotifyEvent ==
    /\ xs.pc = "ready"
    /\ \E cb \in xs.callbacks : cb[2] = "move_cb"
    /\ \E event \in Events :
         Returns("move_cb", event, move_cb(Frame(xs), event))

\* the canvas delivers a button_press_event to the connected click_cb
ButtonPressEvent ==
    /\ xs.pc = "ready"
    /\ \E cb \in xs.callbacks : cb[2] = "click_cb"
    /\ \E event \in Events :
         Returns("click_cb", event, click_cb(Frame(xs), event))

\* the toolkit repaints the canvas (resize, expose)
DrawEvent ==
    /\ xs.pc = "ready"
    /\ xs.canvas
    /\ Returns("draw", None, CanvasDraw(Frame(xs)))

NoCall == [op |-> "", arg |-> None, exc |-> "None", updated |-> FALSE, draws |-> 0]

InitXS ==
    /\ xs = NoXS
    /\ view = None
    /\ tree = None
    /\ call = NoCall

NextXS ==
    \/ Construct({None})
    \/ InitArtists(Images)
    \/ ConnectCallbacks
    \/ DisconnectCallbacks
    \/ UpdateImageOf(Images)
    \/ UpdateArtists
    \/ MotionNotifyEvent
    \/ ButtonPressEvent
    \/ DrawEvent

SpecXS == InitXS /\ [][NextXS]_vars

\* The viewer set up once on a 2x2 image, then fed images of that shape
\* and mouse events
SyncImages == {MkImage(<<2, 2>>, 1), MkImage(<<2, 2>>, 2)}

SetupArtists ==
    /\ xs.imdata = None
    /\ InitArtists(SyncImages)

NextSync ==
    \/ Construct({None})
    \/ SetupArtists
    \/ ConnectCallbacks
    \/ UpdateImageOf(SyncImages)
    \/ UpdateArtists
    \/ MotionNotifyEvent
    \/ ButtonPressEvent
    \/ DrawEvent

SpecSync == InitXS /\ [][NextSync]_vars

\* The interpolation setting: every constructor value, one image
NextInterp ==
    \/ Construct(CtorInterpolation)
    \/ InitArtists({MkImage(<<2, 2>>, 1)})
    \/ UpdateInterpolation
    \/ UpdateArtists
    \/ DrawEvent

SpecInterp == InitXS /\ [][NextInterp]_vars

-----------------------------------------------------------------------------
(* OneDimStackViewer and OneDimStackCanvas: data, colormaps *)

\* the k-th data set: x-coordinates and y-coordinates of one line
XData(k) == <<k - 1, k + 1>>
YData(k) == <<2 * k, 3 - k>>

\* a list of n data sets starting at the first-th
XList(n, first) == [i \in 1..n |-> XData(first + i - 1)]
YList(n, first) == [i \in 1..n |-> YData(first + i - 1)]

\* offsets offered to set_horz_offset / set_vert_offset
Offsets == {0, 3}

\* sorted colormap names (common._CMAPS); the first is the default
CMAPS == <<"Accent", "gray", "jet">>
\* names offered to update_colormap; the last is no colormap
CmapInputs == {"jet", "no_such_map"}
IsColormap(name) == \E i \in 1..Len(CMAPS) : CMAPS[i] = name

\* array + scalar
Shift(arr, d) == [i \in 1..Len(arr) |-> arr[i] + d]

\* the limits the axes take when the lines are first plotted
PlottedLimits(arrs) ==
    IF Len(arrs) = 0 THEN <<0, 1>>
    ELSE <<SeqMin([k \in 1..Len(arrs) |-> SeqMin(arrs[k])]),
           SeqMax([k \in 1..Len(arrs) |-> SeqMax(arrs[k])])>>

\* OneDimStackViewer.__init__
OneDimStackViewerInit(x, y) ==
    [x |-> x, y |-> y,
     rgba |-> CMAPS[1],
     horz_offset |-> 0, vert_offset |-> 0,
     autoscale |-> FALSE,
     cmap |-> "jet",
     lines |-> [k \in 1..Len(y) |->
                  [xdata |-> Shift(x[k], (k - 1) * 0),
                   ydata |-> Shift(y[k], (k - 1) * 0),
                   color |-> <<"cycle", k - 1, 0>>]],
     xlim |-> PlottedLimits(x),
     ylim |-> PlottedLimits(y)]

\* OneDimStackViewer.set_vert_offset
set_vert_offset(f, vert_offset) ==
    IF Raised(f) THEN f ELSE [f EXCEPT !.self.vert_offset = vert_offset]

\* OneDimStackViewer.set_horz_offset
set_horz_offset(f, horz_offset) ==
    IF Raised(f) THEN f ELSE [f EXCEPT !.self.horz_offset = horz_offset]

\* OneDimStackViewer.add_line
add_line(f, x, y) ==
    IF Raised(f) THEN f
    ELSE [f EXCEPT !.self.x = Append(@, x), !.self.y = Append(@, y)]

\* OneDimStackViewer.set_auto_scale
set_auto_scale(f, is_autoscaling) ==
    IF Raised(f) THEN f ELSE [f EXCEPT !.self.autoscale = is_autoscaling]

\* OneDimStackViewer.update_colormap: the ScalarMappable constructor
\* rejects an unknown name before the assignment
update_colormap(f, new_cmap) ==
    IF Raised(f) THEN f
    ELSE IF ~IsColormap(new_cmap) THEN Raise(f, "ValueError")
    ELSE [f EXCEPT !.self.rgba = new_cmap]

\* the loop body adding the offsets without the factor idx
ReplotLine_no_idx(f, idx) ==
    LET v == f.self
        n == Len(v.lines)
    IN IF idx + 1 > Len(v.x) THEN Raise(f, "IndexError")
       ELSE LET g == [f EXCEPT !.self.lines[idx + 1].xdata =
                                   Shift(v.x[idx + 1], v.horz_offset)]
            IN IF idx + 1 > Len(v.y) THEN Raise(g, "IndexError")
               ELSE [g EXCEPT !.self.lines[idx + 1].ydata =
                                   Shift(v.y[idx + 1], v.vert_offset),
                              !.self.lines[idx + 1].color = <<v.rgba, idx, n>>]

\* one turn of the loop of replot, for the line with 0-based index idx
ReplotLine(f, idx) ==
    LET v == f.self
        n == Len(v.lines)
    IN IF idx + 1 > Len(v.x) THEN Raise(f, "IndexError")
       ELSE LET g == [f EXCEPT !.self.lines[idx + 1].xdata =
                                   Shift(v.x[idx + 1], idx * v.horz_offset)]
            IN IF idx + 1 > Len(v.y) THEN Raise(g, "IndexError")
               ELSE [g EXCEPT !.self.lines[idx + 1].ydata =
                                   Shift(v.y[idx + 1], idx * v.vert_offset),
                              !.self.lines[idx + 1].color = <<v.rgba, idx, n>>]

RECURSIVE ReplotLoop(_, _)
ReplotLoop(f, idx) ==
    IF Raised(f) \/ idx >= Len(f.self.lines) THEN f
    ELSE ReplotLoop(ReplotLine(f, idx), idx + 1)

\* find_range whose loop stops one line early: the last entry of each
\* preallocated array keeps its np.zeros value
find_range_skip_last(f) ==
    LET ln == f.self.lines
        n == Len(ln)
    IN IF n = 0 THEN Raise(f, "ValueError")
       ELSE [f EXCEPT !.self =
               <<SeqMin([k \in 1..n |-> IF k < n THEN SeqMin(ln[k].xdata) ELSE 0]),
                 SeqMax([k \in 1..n |-> IF k < n THEN SeqMax(ln[k].xdata) ELSE 0]),
                 SeqMin([k \in 1..n |-> IF k < n THEN SeqMin(ln[k].ydata) ELSE 0]),
                 SeqMax([k \in 1..n |-> IF k < n THEN SeqMax(ln[k].ydata) ELSE 0])>>]

\* OneDimStackViewer.find_range: a frame whose self is (min_x, max_x, min_y, max_y)
find_range(f) ==
    LET ln == f.self.lines
        n == Len(ln)
    IN IF n = 0 THEN Raise(f, "ValueError")
       ELSE [f EXCEPT !.self =
               <<SeqMin([k \in 1..n |-> SeqMin(ln[k].xdata)]),
                 SeqMax([k \in 1..n |-> SeqMax(ln[k].xdata)]),
                 SeqMin([k \in 1..n |-> SeqMin(ln[k].ydata)]),
                 SeqMax([k \in 1..n |-> SeqMax(ln[k].ydata)])>>]

\* OneDimStackViewer.replot
replot(f) ==
    IF Raised(f) THEN f
    ELSE LET g == ReplotLoop([f EXCEPT !.updated = TRUE], 0)
         IN IF Raised(g) THEN g
            ELSE IF g.self.autoscale
                 THEN LET r == find_range(g)
                      IN IF Raised(r) THEN Raise(g, r.exc)
                         ELSE [g EXCEPT !.self.xlim = <<r.self[1], r.self[2]>>,
                                        !.self.ylim = <<r.self[3], r.self[4]>>]
                 ELSE g

\* FigureCanvas.draw
draw(f) == IF Raised(f) THEN f ELSE [f EXCEPT !.draws = @ + 1]

\* OneDimStackCanvas.sl_update_x_offset
sl_update_x_offset(f, x_offset) == draw(replot(set_horz_offset(f, x_offset)))

\* OneDimStackCanvas.sl_update_y_offset
sl_update_y_offset(f, y_offset) == draw(replot(set_vert_offset(f, y_offset)))

\* OneDimStackCanvas.sl_update_autoscaling
sl_update_autoscaling(f, is_autoscaling) ==
    draw(replot(set_auto_scale(f, is_autoscaling)))

\* OneDimStackCanvas.sl_update_color_map: try ... except ValueError: pass
sl_update_color_map(f, cmap) ==
    LET g == update_colormap(f, cmap)
    IN draw(replot(IF g.exc = "ValueError" THEN f ELSE g))

\* OneDimStackCanvas.set_data
set_data(f, x, y) == draw(replot([f EXCEPT !.self.x = x, !.self.y = y]))

\* OneDimStackCanvas.add_data
add_data(f, x, y) == draw(replot(add_line(f, x, y)))

-----------------------------------------------------------------------------
(* OneDimStackViewer: the actions on the viewer itself *)

ViewReturns(op, arg, f) ==
    /\ view' = f.self
    /\ call' = [op |-> op, arg |-> arg, exc |-> f.exc,
                updated |-> f.updated, draws |-> f.draws]
    /\ UNCHANGED <<xs, tree>>

\* data sets offered to add_line / add_data
AddInputs == {1, 2}

SetVertOffset ==
    \E off \in Offsets :
        ViewReturns("set_vert_offset", off, set_vert_offset(Frame(view), off))

SetHorzOffset ==
    \E off \in Offsets :
        ViewReturns("set_horz_offset", off, set_horz_offset(Frame(view), off))

AddLine ==
    /\ Len(view.y) < Len(view.lines) + MaxAdd
    /\ \E k \in AddInputs :
        ViewReturns("add_line", k, add_line(Frame(view), XData(k), YData(k)))

Replot == ViewReturns("replot", None, replot(Frame(view)))

SetAutoScale ==
    \E b \in BOOLEAN :
        ViewReturns("set_auto_scale", b, set_auto_scale(Frame(view), b))

\* OneDimStackViewer(fig, x, y) on lists of 0..MaxLines data sets
InitStack ==
    /\ \E n \in 0..MaxLines :
          view = OneDimStackViewerInit(XList(n, 1), YList(n, 1))
    /\ xs = NoXS
    /\ tree = None
    /\ call = NoCall

NextStack ==
    \/ SetVertOffset
    \/ SetHorzOffset
    \/ AddLine
    \/ Replot
    \/ SetAutoScale

SpecStack == InitStack /\ [][NextStack]_vars

-----------------------------------------------------------------------------
(* OneDimStackCanvas: the slots *)

SlUpdateXOffset ==
    \E off \in Offsets :
        ViewReturns("sl_update_x_offset", off, sl_update_x_offset(Frame(view), off))

SlUpdateYOffset ==
    \E off \in Offsets :
        ViewReturns("sl_update_y_offset", off, sl_update_y_offset(Frame(view), off))

SlUpdateAutoscaling ==
    \E b \in BOOLEAN :
        ViewReturns("sl_update_autoscaling", b, sl_update_autoscaling(Frame(view), b))

SlUpdateColorMap ==
    \E cmap \in CmapInputs :
        ViewReturns("sl_update_color_map", cmap, sl_update_color_map(Frame(view), cmap))

\* set_data with lists of 1..MaxLines data sets
SetData ==
    \E n \in 1..MaxLines :
        ViewReturns("set_data", n, set_data(Frame(view), XList(n, 2), YList(n, 2)))

AddData ==
    /\ Len(view.y) < Len(view.lines) + MaxAdd
    /\ \E k \in AddInputs :
        ViewReturns("add_data", k, add_data(Frame(view), XData(k), YData(k)))

NextCanvas ==
    \/ SlUpdateXOffset
    \/ SlUpdateYOffset
    \/ SlUpdateAutoscaling
    \/ SlUpdateColorMap
    \/ SetData
    \/ AddData

SpecCanvas == InitStack /\ [][NextCanvas]_vars

-----------------------------------------------------------------------------
(* RecursiveTreeWidget: the objects shown and the items of the tree *)

\* Python objects: a dict (items in iteration order), an OrderedDict (a
\* subclass of dict), a list, or any other object (an integer); every object
\* is a record of the same three fields
Obj(v) == [kind |-> "obj", val |-> v, items |-> <<>>]
List(elems) ==
    [kind |-> "list", val |-> 0,
     items |-> [i \in 1..Len(elems) |-> [key |-> 0, value |-> elems[i]]]]
Dict(keys, values) ==
    [kind |-> "dict", val |-> 0,
     items |-> [i \in 1..Len(keys) |-> [key |-> keys[i], value |-> values[i]]]]

\* collections.OrderedDict, a subclass of dict
OrderedDict(keys, values) ==
    [kind |-> "OrderedDict", val |-> 0,
     items |-> [i \in 1..Len(keys) |-> [key |-> keys[i], value |-> values[i]]]]

\* type(v) is cls, and isinstance(obj, cls): an OrderedDict is an instance
\* of dict, and its type is not dict
TypeIs(v, cls) == v.kind = cls
IsInstance(obj, cls) ==
    \/ obj.kind = cls
    \/ cls = "dict" /\ obj.kind = "OrderedDict"

\* unicode(n) of a natural number: its decimal digits
Digit(d) == <<"0", "1", "2", "3", "4", "5", "6", "7", "8", "9">>[d + 1]
RECURSIVE Unicode(_)
Unicode(n) == IF n < 10 THEN Digit(n) ELSE Unicode(n \div 10) \o Digit(n % 10)

\* repr() of an object, which unicode() returns for a container
RECURSIVE Repr(_)
RECURSIVE JoinRepr(_, _)
JoinRepr(items, kind) ==
    IF items = <<>> THEN ""
    ELSE LET it == Head(items)
             one == IF kind = "list" THEN Repr(it.value)
                    ELSE IF kind = "dict"
                    THEN Unicode(it.key) \o ": " \o Repr(it.value)
                    ELSE "(" \o Unicode(it.key) \o ", " \o Repr(it.value) \o ")"
         IN IF Tail(items) = <<>> THEN one
            ELSE one \o ", " \o JoinRepr(Tail(items), kind)

Repr(obj) ==
    IF obj.kind = "obj" THEN Unicode(obj.val)
    ELSE IF obj.kind = "list" THEN "[" \o JoinRepr(obj.items, "list") \o "]"
    ELSE IF obj.kind = "dict" THEN "{" \o JoinRepr(obj.items, "dict") \o "}"
    ELSE IF obj.items = <<>> THEN "OrderedDict()"
    ELSE "OrderedDict([" \o JoinRepr(obj.items, "OrderedDict") \o "])"

\* keys of the dicts; 2 < 10 as numbers, "10" < "2" as text
Keys == {2, 10}

\* sequences over S of length at most n
SeqsOver(S, n) == UNION {[1..k -> S] : k \in 0..n}

\* the objects nested inside the objects shown
Inner ==
    {Obj(0), Obj(7), List(<<>>), Dict(<<>>, <<>>),
     List(<<Obj(0), Obj(7)>>), Dict(<<2>>, <<Obj(0)>>),
     OrderedDict(<<10, 2>>, <<Obj(0), Obj(7)>>)}

\* key sequences without repetition, in any iteration order
KeySeqs ==
    {ks \in SeqsOver(Keys, Cardinality(Keys)) :
        \A i, j \in 1..Len(ks) : i # j => ks[i] # ks[j]}

\* the objects handed to fill_widget
TreeObjects ==
    Inner
    \cup {List(elems) : elems \in SeqsOver(Inner, MaxLen)}
    \cup UNION {{Dict(ks, vs) : vs \in [1..Len(ks) -> Inner]} : ks \in KeySeqs}

\* QtGui.QTreeWidgetItem(): no text, collapsed, no children
NewItem == [text |-> "", expanded |-> FALSE, children |-> <<>>]

\* sorted(six.iteritems(obj)): insertion of each item before the first
\* item with a greater key
RECURSIVE InsertSorted(_, _)
InsertSorted(sorted, item) ==
    IF sorted = <<>> THEN <<item>>
    ELSE IF item.key < Head(sorted).key THEN <<item>> \o sorted
    ELSE <<Head(sorted)>> \o InsertSorted(Tail(sorted), item)

RECURSIVE SortedItems(_)
SortedItems(items) ==
    IF items = <<>> THEN <<>>
    ELSE InsertSorted(SortedItems(Tail(items)), Head(items))

\* RecursiveTreeWidget.add_child
add_child(node, child) == [node EXCEPT !.children = Append(@, child)]

\* RecursiveTreeWidget.fill_item (node_name is never passed)
RECURSIVE fill_item(_, _)
RECURSIVE FillDict(_, _)
RECURSIVE FillList(_, _)

\* the loop over the sorted items of a dict
FillDict(node, items) ==
    IF items = <<>> THEN node
    ELSE LET dict_child == [NewItem EXCEPT !.text = Unicode(Head(items).key)]
         IN FillDict(add_child(node, fill_item(dict_child, Head(items).value)),
                     Tail(items))

\* the loop over the elements of a list
FillList(node, items) ==
    IF items = <<>> THEN node
    ELSE LET v == Head(items).value
             list_child ==
                 IF TypeIs(v, "dict")
                 THEN fill_item([NewItem EXCEPT !.text = "[dict]"], v)
                 ELSE IF TypeIs(v, "list")
                 THEN fill_item([NewItem EXCEPT !.text = "[list]"], v)
                 ELSE [NewItem EXCEPT !.text = Repr(v)]
         IN FillList(add_child(node, [list_child EXCEPT !.expanded = FALSE]),
                     Tail(items))

fill_item(node, obj) ==
    LET n == [node EXCEPT !.expanded = FALSE]
    IN IF IsInstance(obj, "dict") THEN FillDict(n, SortedItems(obj.items))
       ELSE IF IsInstance(obj, "list") THEN FillList(n, obj.items)
       ELSE add_child(n, [NewItem EXCEPT !.text = Repr(obj)])

\* QTreeWidget.clear(): removes all the items below the invisible root
QTreeWidgetClear(root) == [root EXCEPT !.children = <<>>]

\* fill_widget without the call of clear()
fill_widget_no_clear(root, obj) == fill_item(root, obj)

\* RecursiveTreeWidget.fill_widget
fill_widget(root, obj) == fill_item(QTreeWidgetClear(root), obj)

\* An item of the tree is referred to by the positions (from 1) of the
\* children on the way from the invisible root item down to it; a reference
\* is None or Some(path), and the invisible root item is Some(<<>>).
invisibleRootItem == Some(<<>>)

RECURSIVE ItemAt(_, _)
ItemAt(node, path) ==
    IF path = <<>> THEN node
    ELSE ItemAt(node.children[Head(path)], Tail(path))

\* the paths of node and of all the items below it
RECURSIVE ItemPaths(_)
ItemPaths(node) ==
    {<<>>} \cup UNION {{<<i>> \o q : q \in ItemPaths(node.children[i])} :
                           i \in 1..Len(node.children)}

\* QTreeWidgetItem.parent(): the item this one was added to, and None for
\* a top-level item (an item added to the invisible root item of the
\* widget has no parent) and for the invisible root item itself
parent(item) ==
    LET path == item[1]
    IN IF Len(path) <= 1 THEN None
       ELSE Some(SubSeq(path, 1, Len(path) - 1))

\* QTreeWidgetItem.text(0)
text(root, item) == ItemAt(root, item[1]).text

\* QTreeWidgetItem.indexOfChild(child): the index from 0, -1 if not a child
indexOfChild(item, child) ==
    LET pp == item[1]
        cp == child[1]
    IN IF Len(cp) = Len(pp) + 1 /\ SubSeq(cp, 1, Len(pp)) = pp
       THEN cp[Len(cp)] - 1
       ELSE -1

\* the while loop of find_root and the statements after it; calling
\* parent() on None raises AttributeError
RECURSIVE FindRootLoop(_, _, _, _)
FindRootLoop(root, node, par, path_to_node) ==
    IF par # invisibleRootItem
    THEN LET path == <<text(root, node)>> \o path_to_node
         IN IF par = None
            THEN [exc |-> "AttributeError", ret |-> None]
            ELSE FindRootLoop(root, par, parent(par), path)
    ELSE [exc |-> "None",
          ret |-> <<path_to_node, indexOfChild(par, node)>>]

\* RecursiveTreeWidget.find_root
find_root(root, node) == FindRootLoop(root, node, parent(node), <<>>)

-----------------------------------------------------------------------------
(* RecursiveTreeWidget: the actions *)

\* fill_widget(obj), also reached through DisplayDict.set_tree; the call
\* records whether clear() had items to remove
FillWidget ==
    \E obj \in TreeObjects :
        /\ tree' = fill_widget(tree, obj)
        /\ call' = [op |-> "fill_widget", arg |-> obj, exc |-> "None",
                    updated |-> tree.children # <<>>, draws |-> 0]
        /\ UNCHANGED <<xs, view>>

\* RecursiveTreeWidget(): the invisible root item without children
InitTree ==
    /\ \E expanded \in BOOLEAN : tree = [NewItem EXCEPT !.expanded = expanded]
    /\ xs = NoXS
    /\ view = None
    /\ call = NoCall

NextTree == FillWidget

\* find_root(node) on an item of the filled tree
FindRoot ==
    \E path \in ItemPaths(tree) \ {<<>>} :
        LET r == find_root(tree, Some(path))
        IN /\ call' = [op |-> "find_root",
                       arg |-> [node |-> path, ret |-> r.ret],
                       exc |-> r.exc, updated |-> FALSE, draws |-> 0]
           /\ UNCHANGED <<xs, view, tree>>

NextFind ==
    \/ FillWidget
    \/ FindRoot

SpecFind == InitTree /\ [][NextFind]_vars

SpecTree == InitTree /\ [][NextTree]_vars

-----------------------------------------------------------------------------
(* CrossSection: properties *)

\* the pixel int(x + 0.5), int(y + 0.5) of a mouse event with data coordinates
EventRow(event) == IntPlusHalf(event.ydata[1])
EventCol(event) == IntPlusHalf(event.xdata[1])
InBounds(event, im) ==
    /\ event.inaxes /\ event.xdata # None /\ event.ydata # None
    /\ 0 <= EventRow(event) /\ EventRow(event) < Shape(im)[1]
    /\ 0 <= EventCol(event) /\ EventCol(event) < Shape(im)[2]

Registered(s, name) == \E cb \in s.callbacks : cb[2] = name

\* C1: update_image(new_image) with a shape other than the current image's
\* raises ValueError and leaves the image data, the dirty flags and every
\* artist as they were; update_artists does not run and the canvas is not
\* drawn, whatever auto_redraw and force_redraw are.
C1_UpdateImageShapeGuard ==
    [][(/\ call'.op = "update_image"
        /\ xs.imdata # None
        /\ Shape(call'.arg) # Shape(xs.imdata))
       => (/\ call'.exc = "ValueError"
           /\ xs' = xs
           /\ ~call'.updated
           /\ call'.draws = 0)]_vars

\* a mismatching update_image was refused on a connected, auto-redrawing viewer
C1_Witness ==
    /\ call.op = "update_image"
    /\ call.exc = "ValueError"
    /\ Shape(call.arg) # Shape(xs.imdata)
    /\ xs.auto_redraw
    /\ Registered(xs, "clear")

\* C2: constructing a CrossSection on a figure with a canvas and with an
\* initial image completes, stores the image and connects the motion,
\* button-press and draw callbacks (three ids and the cursor are set).
C2_ConstructWithCanvasAndImage ==
    (call.op = "__init__" /\ call.arg.canvas /\ call.arg.init_image # None)
    => (/\ call.exc = "None"
        /\ xs.pc = "ready"
        /\ xs.imdata = call.arg.init_image[1]
        /\ xs.move_cid # None /\ xs.click_cid # None /\ xs.clear_cid # None
        /\ xs.cur # "None")

\* C3: once move_cb has handled an event at an in-bounds pixel (row, col) of
\* an active viewer, the horizontal line shows row `row` and the vertical
\* line column `col` of the current image data.
C3_ProfilesFollowImage ==
    (/\ call.op = "move_cb"
     /\ call.exc = "None"
     /\ xs.active
     /\ xs.imdata # None
     /\ InBounds(call.arg, xs.imdata))
    => (/\ xs.ln_h.ydata = RowOf(xs.imdata, EventRow(call.arg))
        /\ xs.ln_v.xdata = ColOf(xs.imdata, EventCol(call.arg)))

\* what disconnect_callbacks leaves behind
C4_AfterDisconnect ==
    call.op = "disconnect_callbacks"
    => (/\ call.exc = "None"
        /\ ~Registered(xs, "move_cb")
        /\ ~Registered(xs, "click_cb")
        /\ ~Registered(xs, "clear")
        /\ xs.move_cid = None /\ xs.click_cid = None /\ xs.clear_cid = None
        /\ xs.cur = "None")

\* what connect_callbacks leaves behind on a figure with a canvas
C4_AfterConnect ==
    (call.op = "connect_callbacks" /\ xs.canvas)
    => (/\ xs.move_cid # None /\ xs.click_cid # None /\ xs.clear_cid # None
        /\ <<xs.move_cid[1], "move_cb">> \in xs.callbacks
        /\ <<xs.click_cid[1], "click_cb">> \in xs.callbacks
        /\ <<xs.clear_cid[1], "clear">> \in xs.callbacks
        /\ xs.cur # "None")

C5_InterpolationProperty ==
    /\ (call.op = "__init__" /\ call.exc = "None")
       => interpolation_property(xs) =
            (IF call.arg.interpolation = None THEN "none"
             ELSE call.arg.interpolation[1])
    /\ (call.op = "update_interpolation" /\ call.exc = "None")
       => interpolation_property(xs) = call.arg

-----------------------------------------------------------------------------
(* OneDimStackViewer and OneDimStackCanvas: properties *)

\* arr + d, point by point
IsShifted(shown, arr, d) ==
    /\ Len(shown) = Len(arr)
    /\ \A i \in 1..Len(arr) : shown[i] = arr[i] + d

\* C6: after add_line followed by replot (the add_data slot) there is one
\* line artist per stored data set and the last line shows the new data.
C6_AddLineDisplayed ==
    (call.op = "add_data" /\ call.exc = "None")
    => (/\ Len(view.lines) = Len(view.y)
        /\ LET n == Len(view.lines)
           IN /\ IsShifted(view.lines[n].xdata, XData(call.arg),
                           (n - 1) * view.horz_offset)
              /\ IsShifted(view.lines[n].ydata, YData(call.arg),
                           (n - 1) * view.vert_offset))

\* the lines after a replot that returned
C7_AfterReplot ==
    (call.op = "replot" /\ call.exc = "None")
    => /\ \A k \in 1..Len(view.lines) :
            /\ IsShifted(view.lines[k].xdata, view.x[k], (k - 1) * view.horz_offset)
            /\ IsShifted(view.lines[k].ydata, view.y[k], (k - 1) * view.vert_offset)
       /\ Len(view.lines) >= 1
            => (view.lines[1].xdata = view.x[1] /\ view.lines[1].ydata = view.y[1])

\* C7: after replot every line idx shows x[idx] + idx * horz_offset and
\* y[idx] + idx * vert_offset for the offsets last set, line 0 is not
\* shifted, and setting an offset alone changes no displayed line.
C7_ReplotOffsets ==
    /\ []C7_AfterReplot
    /\ [][call'.op \in {"set_horz_offset", "set_vert_offset"}
          => view'.lines = view.lines]_vars

\* two lines replotted with both offsets set
C7_Witness ==
    /\ call.op = "replot"
    /\ call.exc = "None"
    /\ Len(view.lines) >= 2
    /\ view.horz_offset # 0
    /\ view.vert_offset # 0
    /\ view.lines[2].xdata # view.x[2]

\* the values shown by all the lines
ShownX ==
    UNION {{view.lines[k].xdata[i] : i \in 1..Len(view.lines[k].xdata)} :
              k \in 1..Len(view.lines)}
ShownY ==
    UNION {{view.lines[k].ydata[i] : i \in 1..Len(view.lines[k].ydata)} :
              k \in 1..Len(view.lines)}
IsRangeOf(lim, S) ==
    /\ lim[1] \in S
    /\ lim[2] \in S
    /\ \A v \in S : lim[1] <= v /\ v <= lim[2]

\* the limits after an autoscaling replot that returned
C8_AfterReplot ==
    (call.op = "replot" /\ call.exc = "None" /\ view.autoscale)
    => (IsRangeOf(view.xlim, ShownX) /\ IsRangeOf(view.ylim, ShownY))

\* C8: with autoscale enabled, after replot the x- and y-limits are the
\* minimum and maximum over the shown data of all the lines; with autoscale
\* disabled replot leaves the limits as they were.
C8_Autoscale ==
    /\ []C8_AfterReplot
    /\ [][(call'.op = "replot" /\ ~view.autoscale)
          => (view'.xlim = view.xlim /\ view'.ylim = view.ylim)]_vars

\* two shifted lines autoscaled
C8_Witness ==
    /\ call.op = "replot"
    /\ call.exc = "None"
    /\ view.autoscale
    /\ Len(view.lines) >= 2
    /\ view.horz_offset # 0
    /\ view.xlim # PlottedLimits(view.x)

\* C9: sl_update_color_map with a rejected name raises nothing, leaves the
\* colour mapping as it was and still replots and redraws; with an accepted
\* name the mapping is replaced before the replot.
C9_ColorMapSlot ==
    [][call'.op = "sl_update_color_map"
       => IF IsColormap(call'.arg)
          THEN /\ view'.rgba = call'.arg
               /\ call'.exc = "None"
                    => \A k \in 1..Len(view'.lines) :
                          view'.lines[k].color[1] = call'.arg
          ELSE /\ call'.exc = "None"
               /\ view'.rgba = view.rgba
               /\ call'.updated
               /\ call'.draws = 1]_vars

-----------------------------------------------------------------------------
(* RecursiveTreeWidget: properties *)

\* C10: fill_widget(obj) replaces the tree: whatever the widget held, the
\* tree afterwards is the one fill_widget(obj) builds on a new widget, so
\* filling twice with obj, or with a and then b, gives the tree of the last
\* object alone.
C10_FillWidgetReplaces ==
    call.op = "fill_widget" => tree = fill_item(NewItem, call.arg)

\* a filled widget was filled again, with a dict of two keys
C10_Witness ==
    /\ call.op = "fill_widget"
    /\ call.updated
    /\ call.arg.kind = "dict"
    /\ Len(tree.children) = 2

\* position of key k among the children of a dict node: one more than the
\* number of smaller keys
KeyRank(obj, k) ==
    1 + Cardinality({j \in 1..Len(obj.items) : obj.items[j].key < k})

\* the children of node mirror obj
RECURSIVE Mirrors(_, _)
Mirrors(node, obj) ==
    IF IsInstance(obj, "dict")
    THEN /\ Len(node.children) = Len(obj.items)
         /\ \A i \in 1..Len(obj.items) :
               LET it == obj.items[i]
                   child == node.children[KeyRank(obj, it.key)]
               IN child.text = Unicode(it.key) /\ Mirrors(child, it.value)
    ELSE IF IsInstance(obj, "list")
    THEN /\ Len(node.children) = Len(obj.items)
         /\ \A i \in 1..Len(obj.items) :
               LET v == obj.items[i].value
                   child == node.children[i]
               IN IF IsInstance(v, "dict")
                  THEN child.text = "[dict]" /\ Mirrors(child, v)
                  ELSE IF IsInstance(v, "list")
                  THEN child.text = "[list]" /\ Mirrors(child, v)
                  ELSE child.text = Repr(v) /\ child.children = <<>>
    ELSE /\ Len(node.children) = 1
         /\ node.children[1].text = Repr(obj)
         /\ node.children[1].children = <<>>

\* C11: fill_item mirrors the nested structure: a dict node has one child
\* per key, in sorted key order, labelled with the key and filled with the
\* value; a list node has one child per element, in list order, labelled
\* '[dict]' or '[list]' and filled when the element is a dict or a list, and
\* labelled with the element's text and left without children otherwise; any
\* other object is a single leaf labelled with its text.
C11_FillItemMirrors ==
    call.op = "fill_widget" => Mirrors(tree, call.arg)

\* the texts of the items on the way to the item at path, from just below
\* its top-level ancestor down to the item itself
PathTexts(root, path) ==
    [k \in 1..(Len(path) - 1) |-> ItemAt(root, SubSeq(path, 1, k + 1)).text]

\* C12: find_root(node) returns (path_to_node, dict_idx) for every node of a
\* filled tree: dict_idx is the index of the node's top-level ancestor among
\* the top-level items, path_to_node the texts from just below that ancestor
\* down to the node (empty for a top-level node).
C12_FindRootReturns ==
    call.op = "find_root" =>
        /\ call.exc = "None"
        /\ call.arg.ret = <<PathTexts(tree, call.arg.node), call.arg.node[1] - 1>>

====
